---- MODULE Spec2Model ----
(***************************************************************************)
(* A model of @softwareventures/date-time (src/index.ts).                  *)
(*                                                                         *)
(* Numbers.  A JavaScript number is modelled in fixed point: a finite      *)
(* number x is the integer x * Scale ("ticks"), so Scale = 2 gives a       *)
(* resolution of half a unit and lets a field be a non-integer.  NaN,      *)
(* +Infinity and -Infinity are separate kinds, and "undef" is an absent    *)
(* optional property.  A count of reference seconds does not fit TLC's     *)
(* 32-bit integers, so it is kept as a two-digit number in base            *)
(* SecondsPerDay: d whole days plus t ticks, 0 <= t < DayTicks.            *)
(*                                                                         *)
(* The calendar and time-of-day primitives come from the packages          *)
(* @softwareventures/date and @softwareventures/time, which are imported   *)
(* by src/index.ts; they are modelled from their documented contract.      *)
(***************************************************************************)
EXTENDS Integers, Sequences, FiniteSets, TLC

\* Ticks per unit of the fixed-point numbers.
Scale == 2

\* src/index.ts: the factor of toReferenceSeconds and fromReferenceSeconds.
SecondsPerDay == 86400

DayTicks == SecondsPerDay * Scale

(***************************************************************************)
(* JavaScript numbers                                                      *)
(***************************************************************************)
Fin(v) == [k |-> "fin", v |-> v]
Int2Num(i) == Fin(i * Scale)
NaN == [k |-> "nan", v |-> 0]
PosInf == [k |-> "inf", v |-> 0]
NegInf == [k |-> "ninf", v |-> 0]
Undef == [k |-> "undef", v |-> 0]

\* x ?? 0
Default0(x) == IF x.k = "undef" THEN Fin(0) ELSE x

\* The global isFinite, of a number.
isFinite(x) == x.k = "fin"

\* is-integer
isInteger(x) == x.k = "fin" /\ x.v % Scale = 0

\* is-integer-in-range
isIntegerInRange(x, lo, hi) == isInteger(x) /\ x.v >= lo * Scale /\ x.v <= hi * Scale

\* x >= c and x < c of JavaScript, c an integer literal: false of NaN.
NumGeInt(x, c) ==
    CASE x.k = "fin" -> x.v >= c * Scale
      [] x.k = "inf" -> TRUE
      [] OTHER -> FALSE

NumLtInt(x, c) ==
    CASE x.k = "fin" -> x.v < c * Scale
      [] x.k = "ninf" -> TRUE
      [] OTHER -> FALSE

\* The % of JavaScript: the result has the sign of the dividend.
JsRem(x, m) == IF x >= 0 THEN x % m ELSE 0 - ((0 - x) % m)

\* Wide numbers: d * SecondsPerDay + t / Scale.
WFin(d, t) == [k |-> "fin", d |-> d, t |-> t]
WNaN == [k |-> "nan", d |-> 0, t |-> 0]
WPosInf == [k |-> "inf", d |-> 0, t |-> 0]
WNegInf == [k |-> "ninf", d |-> 0, t |-> 0]

\* days * 86400 + ticks / Scale, carried into the two digits.
WOfDaysAndTicks(days, ticks) == WFin(days + (ticks \div DayTicks), ticks % DayTicks)

\* a < b, a > b, a === b of JavaScript on wide numbers: all false of NaN.
WLt(a, b) ==
    CASE a.k = "nan" \/ b.k = "nan" -> FALSE
      [] a.k = "ninf" -> b.k # "ninf"
      [] b.k = "inf" -> a.k # "inf"
      [] a.k = "inf" \/ b.k = "ninf" -> FALSE
      [] OTHER -> a.d < b.d \/ (a.d = b.d /\ a.t < b.t)

WGt(a, b) == WLt(b, a)

WEq(a, b) ==
    CASE a.k = "nan" \/ b.k = "nan" -> FALSE
      [] a.k # "fin" \/ b.k # "fin" -> a.k = b.k
      [] OTHER -> a.d = b.d /\ a.t = b.t

(***************************************************************************)
(* @softwareventures/date                                                  *)
(***************************************************************************)
isLeapYear(y) == (y % 4 = 0 /\ y % 100 # 0) \/ y % 400 = 0

daysInMonth(m, y) ==
    CASE m = 2 -> IF isLeapYear(y) THEN 29 ELSE 28
      [] m \in {4, 6, 9, 11} -> 30
      [] OTHER -> 31

RECURSIVE DaysBeforeMonth(_, _)
DaysBeforeMonth(m, y) == IF m <= 1 THEN 0 ELSE daysInMonth(m - 1, y) + DaysBeforeMonth(m - 1, y)

DaysBeforeYear(y) ==
    365 * (y - 1) + ((y - 1) \div 4) - ((y - 1) \div 100) + ((y - 1) \div 400)

\* date.toReferenceDays on integers: days since 1 January, 1 CE, an
\* out-of-range month carried into the year and the day counted on.
DateToReferenceDaysInt(y, m, d) ==
    LET yy == y + ((m - 1) \div 12)
        mm == ((m - 1) % 12) + 1
    IN  DaysBeforeYear(yy) + DaysBeforeMonth(mm, yy) + d - 1

\* date.toReferenceDays on numbers: NaN when a field is not finite.
DateToReferenceDays(year, month, day) ==
    IF year.k # "fin" \/ month.k # "fin" \/ day.k # "fin"
    THEN NaN
    ELSE Int2Num(DateToReferenceDaysInt(year.v \div Scale, month.v \div Scale, day.v \div Scale))

\* date.fromReferenceDays: the calendar date of a day count.
DateFromReferenceDays(n) ==
    LET z == n + 306
        era == z \div 146097
        doe == z - era * 146097
        yoe == (doe - (doe \div 1460) + (doe \div 36524) - (doe \div 146096)) \div 365
        doy == doe - (365 * yoe + (yoe \div 4) - (yoe \div 100))
        mp == (5 * doy + 2) \div 153
        d == doy - ((153 * mp + 2) \div 5) + 1
        m == IF mp < 10 THEN mp + 3 ELSE mp - 9
        y == yoe + era * 400 + (IF m <= 2 THEN 1 ELSE 0)
    IN  [year |-> y, month |-> m, day |-> d]

(***************************************************************************)
(* @softwareventures/time                                                  *)
(***************************************************************************)
\* The sum of two numbers, as IEEE 754 has it.
NumAdd(x, y) ==
    CASE x.k = "nan" \/ y.k = "nan" -> NaN
      [] x.k = "fin" /\ y.k = "fin" -> Fin(x.v + y.v)
      [] x.k = "fin" -> y
      [] y.k = "fin" -> x
      [] x.k = y.k -> x
      [] OTHER -> NaN

\* The product of a number and a positive integer literal.
NumTimesInt(x, c) == IF x.k = "fin" THEN Fin(x.v * c) ELSE x

\* time.toReferenceSeconds: hours * 3600 + minutes * 60 + seconds.
TimeToReferenceSeconds(hours, minutes, seconds) ==
    NumAdd(NumAdd(NumTimesInt(hours, 3600), NumTimesInt(minutes, 60)), seconds)

\* time.fromReferenceSeconds, of a finite count of ticks.
TimeFromReferenceSeconds(ticks) ==
    [hours |-> (ticks \div (3600 * Scale)) % 24,
     minutes |-> (ticks \div (60 * Scale)) % 60,
     secondsTicks |-> ticks % (60 * Scale)]

(***************************************************************************)
(* src/index.ts: values                                                    *)
(***************************************************************************)
\* DateTimeOptions and DateTime.  type is "absent" where the object has no
\* type property; extra stands for the further properties of a caller's
\* object that extends DateTimeOptions.
Opts(type, year, month, day, hours, minutes, seconds, extra) ==
    [type |-> type, year |-> year, month |-> month, day |-> day,
     hours |-> hours, minutes |-> minutes, seconds |-> seconds, extra |-> extra]

JANUARY == 1

DECEMBER == 12

\* What a call gives back: threw, or the value in the field of its type.
NoOpts == Opts("absent", Undef, Undef, Undef, Undef, Undef, Undef, "none")

NoOut ==
    [threw |-> FALSE, dt |-> NoOpts, n |-> WNaN, bool |-> FALSE, cmp |-> "none", pick |-> "none",
     null |-> FALSE]

ReturnNull == [NoOut EXCEPT !.null = TRUE]

Throw == [NoOut EXCEPT !.threw = TRUE]

ReturnDateTime(dt) == [NoOut EXCEPT !.dt = dt]

ReturnNumber(n) == [NoOut EXCEPT !.n = n]

ReturnBool(v) == [NoOut EXCEPT !.bool = v]

ReturnComparison(c) == [NoOut EXCEPT !.cmp = c]

ReturnObject(o, which) == [NoOut EXCEPT !.dt = o, !.pick = which]

(***************************************************************************)
(* src/index.ts: validation                                                *)
(***************************************************************************)
isValidNoDayCheck(dateTime) ==
    /\ (dateTime.type = "absent" \/ dateTime.type = "DateTime")
    /\ isInteger(dateTime.year)
    /\ isIntegerInRange(dateTime.month, JANUARY, DECEMBER)
    /\ isIntegerInRange(dateTime.day, 1, 31)
    /\ isIntegerInRange(dateTime.hours, 0, 23)
    /\ isIntegerInRange(Default0(dateTime.minutes), 0, 59)
    /\ NumGeInt(Default0(dateTime.seconds), 0)
    /\ NumLtInt(Default0(dateTime.seconds), 60)

isValid(dateTime) ==
    /\ (dateTime.type = "absent" \/ dateTime.type = "DateTime")
    /\ isInteger(dateTime.year)
    /\ isIntegerInRange(dateTime.month, JANUARY, DECEMBER)
    /\ isIntegerInRange(dateTime.day, 1,
                        daysInMonth(dateTime.month.v \div Scale, dateTime.year.v \div Scale))
    /\ isIntegerInRange(dateTime.hours, 0, 23)
    /\ isIntegerInRange(Default0(dateTime.minutes), 0, 59)
    /\ NumGeInt(Default0(dateTime.seconds), 0)
    /\ NumLtInt(Default0(dateTime.seconds), 60)

validateInverted(dateTime) == IF isValid(dateTime) THEN Throw ELSE NoOut

validate(dateTime) == IF ~isValid(dateTime) THEN Throw ELSE NoOut

(***************************************************************************)
(* src/index.ts: reference seconds                                         *)
(***************************************************************************)
toReferenceSecondsNoSeconds(dateTime) ==
    LET days == DateToReferenceDays(dateTime.year, dateTime.month, dateTime.day)
        secs == TimeToReferenceSeconds(dateTime.hours, Default0(dateTime.minutes), Fin(0))
    IN  CASE days.k = "nan" \/ secs.k = "nan" -> WNaN
          [] secs.k = "inf" -> WPosInf
          [] secs.k = "ninf" -> WNegInf
          [] OTHER -> WOfDaysAndTicks(days.v \div Scale, secs.v)

toReferenceSeconds(dateTime) ==
    LET days == DateToReferenceDays(dateTime.year, dateTime.month, dateTime.day)
        secs == TimeToReferenceSeconds(dateTime.hours, Default0(dateTime.minutes),
                                       Default0(dateTime.seconds))
    IN  CASE days.k = "nan" \/ secs.k = "nan" -> WNaN
          [] secs.k = "inf" -> WPosInf
          [] secs.k = "ninf" -> WNegInf
          [] OTHER -> WOfDaysAndTicks(days.v \div Scale, secs.v)

\* Math.trunc in the place of Math.floor.
ReferenceDaysTrunc(referenceSeconds) ==
    IF referenceSeconds.d < 0 /\ referenceSeconds.t > 0
    THEN referenceSeconds.d + 1
    ELSE referenceSeconds.d

\* Math.floor(referenceSeconds / 86400): the high digit of the wide number.
ReferenceDays(referenceSeconds) == referenceSeconds.d

\* (86400 + ((referenceSeconds - referenceDays * 86400) % 86400)) % 86400, in ticks.
ReferenceSecondsInDays(referenceSeconds, referenceDays) ==
    LET rest == (referenceSeconds.d - referenceDays) * DayTicks + referenceSeconds.t
    IN  JsRem(DayTicks + JsRem(rest, DayTicks), DayTicks)

\* The month numbered from 0, as the Date of JavaScript numbers it.
FromFiniteReferenceSecondsMonth0(referenceSeconds) ==
    LET referenceDays == ReferenceDays(referenceSeconds)
        ymd == DateFromReferenceDays(referenceDays)
        hms == TimeFromReferenceSeconds(ReferenceSecondsInDays(referenceSeconds, referenceDays))
    IN  ReturnDateTime(Opts("DateTime", Int2Num(ymd.year), Int2Num(ymd.month - 1),
                            Int2Num(ymd.day), Int2Num(hms.hours), Int2Num(hms.minutes),
                            Fin(hms.secondsTicks), "none"))

\* fromReferenceSeconds past its guard.
FromFiniteReferenceSeconds(referenceSeconds) ==
    LET referenceDays == ReferenceDays(referenceSeconds)
        ymd == DateFromReferenceDays(referenceDays)
        hms == TimeFromReferenceSeconds(ReferenceSecondsInDays(referenceSeconds, referenceDays))
    IN  ReturnDateTime(Opts("DateTime", Int2Num(ymd.year), Int2Num(ymd.month),
                            Int2Num(ymd.day), Int2Num(hms.hours), Int2Num(hms.minutes),
                            Fin(hms.secondsTicks), "none"))

\* The guard on isFinite left out: the arithmetic goes on and every field is NaN.
fromReferenceSecondsNoGuard(referenceSeconds) ==
    IF ~isFinite(referenceSeconds)
    THEN ReturnDateTime(Opts("DateTime", NaN, NaN, NaN, NaN, NaN, NaN, "none"))
    ELSE FromFiniteReferenceSeconds(referenceSeconds)

fromReferenceSeconds(referenceSeconds) ==
    IF ~isFinite(referenceSeconds)
    THEN Throw
    ELSE FromFiniteReferenceSeconds(referenceSeconds)

dateTime(options) == fromReferenceSeconds(toReferenceSeconds(options))

normalize(options) == dateTime(options)

(***************************************************************************)
(* src/index.ts: equality and ordering                                     *)
(***************************************************************************)
equal(a, b) == WEq(toReferenceSeconds(a), toReferenceSeconds(b))

notEqual(a, b) == ~WEq(toReferenceSeconds(a), toReferenceSeconds(b))

compareSwapped(a, b) ==
    LET ad == toReferenceSeconds(a)
        bd == toReferenceSeconds(b)
    IN  IF WLt(ad, bd) THEN "after"
        ELSE IF WGt(ad, bd) THEN "before"
        ELSE IF WEq(ad, bd) THEN "equal"
        ELSE "undefined"

\* The unordered case taken for a tie.
compareUnorderedAsEqual(a, b) ==
    LET ad == toReferenceSeconds(a)
        bd == toReferenceSeconds(b)
    IN  IF WLt(ad, bd) THEN "before"
        ELSE IF WGt(ad, bd) THEN "after"
        ELSE "equal"

compare(a, b) ==
    LET ad == toReferenceSeconds(a)
        bd == toReferenceSeconds(b)
    IN  IF WLt(ad, bd) THEN "before"
        ELSE IF WGt(ad, bd) THEN "after"
        ELSE IF WEq(ad, bd) THEN "equal"
        ELSE "undefined"

before(a, b) == WLt(toReferenceSeconds(a), toReferenceSeconds(b))

beforeOrEqual(a, b) ==
    LET ad == toReferenceSeconds(a)
        bd == toReferenceSeconds(b)
    IN  WLt(ad, bd) \/ WEq(ad, bd)

after(a, b) == WGt(toReferenceSeconds(a), toReferenceSeconds(b))

afterOrEqual(a, b) ==
    LET ad == toReferenceSeconds(a)
        bd == toReferenceSeconds(b)
    IN  WGt(ad, bd) \/ WEq(ad, bd)

\* The test of afterOrEqual in the place of after: a tie gives b.
earliestTieB(a, b) == IF afterOrEqual(a, b) THEN ReturnObject(b, "b") ELSE ReturnObject(a, "a")

earliest(a, b) == IF after(a, b) THEN ReturnObject(b, "b") ELSE ReturnObject(a, "a")

latest(a, b) == IF before(a, b) THEN ReturnObject(b, "b") ELSE ReturnObject(a, "a")

(***************************************************************************)
(* src/index.ts: construction from now                                     *)
(***************************************************************************)
\* What the getters of a Date answer for one calendar day, second of the
\* day and millisecond: getMonth counts from 0, getDate is the day of the
\* month and getDay the day of the week, 0 for Sunday.
ClockFields(d, sec, ms) ==
    LET ymd == DateFromReferenceDays(d)
    IN  [fullYear |-> ymd.year, month |-> ymd.month - 1, date |-> ymd.day, day |-> (d + 1) % 7,
         hours |-> sec \div 3600, minutes |-> (sec \div 60) % 60, seconds |-> sec % 60,
         milliseconds |-> ms]

\* new JsDate(): the clock read at second sec of UTC day d, in a timezone
\* off seconds ahead of UTC.
JsDate(d, sec, ms, off) ==
    [utc |-> ClockFields(d, sec, ms),
     local |-> ClockFields(d + ((sec + off) \div SecondsPerDay), (sec + off) % SecondsPerDay, ms)]

\* seconds + 0.001 * milliseconds, on the grid of the fixed-point numbers.
SecondsAndMilliseconds(seconds, milliseconds) ==
    Fin(seconds * Scale + ((milliseconds * Scale) \div 1000))

nowUtc(now) ==
    ReturnDateTime(Opts("DateTime", Int2Num(now.utc.fullYear), Int2Num(now.utc.month + 1),
                        Int2Num(now.utc.date), Int2Num(now.utc.hours), Int2Num(now.utc.minutes),
                        SecondsAndMilliseconds(now.utc.seconds, now.utc.milliseconds), "none"))

nowDeviceLocal(now) ==
    ReturnDateTime(Opts("DateTime", Int2Num(now.local.fullYear), Int2Num(now.local.month),
                        Int2Num(now.local.day), Int2Num(now.local.hours), Int2Num(now.local.hours),
                        SecondsAndMilliseconds(now.local.seconds, now.local.milliseconds), "none"))

(***************************************************************************)
(* src/index.ts: parsing.  A text is the sequence of its characters.       *)
(***************************************************************************)
\* \d
Digit == {"0", "1", "2", "3", "4", "5", "6", "7", "8", "9"}

\* \s, of which the space, the tab and the line feed are taken.
Space == {" ", "\t", "\n"}

\* The T of the pattern without its i flag.
IsTCaseSensitive(c) == c = "T"

\* T under the i flag.
IsT(c) == c \in {"T", "t"}

\* No $: whatever follows the match is let be.
AtEndUnanchored(t, i) == TRUE

\* $ at position i of t.
AtEnd(t, i) == i = Len(t) + 1

\* x?, x one of cs, at position i: the positions the match may go on from.
OptionalChar(t, i, cs) == IF i <= Len(t) /\ t[i] \in cs THEN {i, i + 1} ELSE {i}

\* \d{2} at position i.
TwoDigits(t, i) == i + 1 <= Len(t) /\ t[i] \in Digit /\ t[i + 1] \in Digit

\* [+-]?\d{4,} from position 1: the positions after it.
YearEnds(t) ==
    UNION {{e \in (sg + 4) .. (Len(t) + 1) : \A k \in sg .. (e - 1) : t[k] \in Digit} :
           sg \in OptionalChar(t, 1, {"+", "-"})}

\* (?:T|\s+) at position i: the positions after it.
DelimiterEnds(t, i) ==
    (IF i <= Len(t) /\ IsT(t[i]) THEN {i + 1} ELSE {})
        \cup {e \in (i + 1) .. (Len(t) + 1) : \A k \in i .. (e - 1) : t[k] \in Space}

\* \d{2}(?:\.\d*)? at position i: the positions after it.
SecondsEnds(t, i) ==
    IF ~TwoDigits(t, i)
    THEN {}
    ELSE {i + 2}
            \cup (IF i + 2 <= Len(t) /\ t[i + 2] = "."
                  THEN {e \in (i + 3) .. (Len(t) + 1) : \A k \in (i + 3) .. (e - 1) : t[k] \in Digit}
                  ELSE {})

\* (?::?(\d{2})(?::?(\d{2}(?:\.\d*)?))?)?$ at position q: groups 5 and 6 of
\* every way to match, the empty sequence for a group that took no part.
TimeTails(t, q) ==
    (IF AtEnd(t, q) THEN {[g5 |-> <<>>, g6 |-> <<>>]} ELSE {})
        \cup UNION {
            IF ~TwoDigits(t, p)
            THEN {}
            ELSE (IF AtEnd(t, p + 2) THEN {[g5 |-> SubSeq(t, p, p + 1), g6 |-> <<>>]} ELSE {})
                    \cup UNION {
                        {[g5 |-> SubSeq(t, p, p + 1), g6 |-> SubSeq(t, r, e - 1)] :
                            e \in {x \in SecondsEnds(t, r) : AtEnd(t, x)}} :
                        r \in OptionalChar(t, p + 2, {":"})} :
            p \in OptionalChar(t, q, {":"})}

\* The pattern of parseIso8601 executed on t: the groups of every way to
\* match.  The parts of the pattern bound one another, so there is one way
\* at most.
Exec(t) ==
    UNION {UNION {
        IF ~TwoDigits(t, p2)
        THEN {}
        ELSE UNION {
            IF ~TwoDigits(t, p3)
            THEN {}
            ELSE UNION {
                IF ~TwoDigits(t, p4)
                THEN {}
                ELSE {[g1 |-> SubSeq(t, 1, ye - 1), g2 |-> SubSeq(t, p2, p2 + 1),
                       g3 |-> SubSeq(t, p3, p3 + 1), g4 |-> SubSeq(t, p4, p4 + 1),
                       g5 |-> tl.g5, g6 |-> tl.g6] : tl \in TimeTails(t, p4 + 2)} :
                p4 \in DelimiterEnds(t, p3 + 2)} :
            p3 \in OptionalChar(t, p2 + 2, {"-"})} :
        p2 \in OptionalChar(t, ye, {"-"})} : ye \in YearEnds(t)}

DigitValue(c) == (CHOOSE i \in 1 .. 10 : <<"0", "1", "2", "3", "4", "5", "6", "7", "8", "9">>[i] = c) - 1

RECURSIVE ParseDigits(_)
ParseDigits(sq) ==
    IF sq = <<>> THEN 0 ELSE 10 * ParseDigits(SubSeq(sq, 1, Len(sq) - 1)) + DigitValue(sq[Len(sq)])

RECURSIVE LeadingDigits(_)
LeadingDigits(sq) == IF sq = <<>> \/ sq[1] \notin Digit THEN 0 ELSE 1 + LeadingDigits(Tail(sq))

RECURSIVE Pow10(_)
Pow10(n) == IF n = 0 THEN 1 ELSE 10 * Pow10(n - 1)

\* parseInt(text, 10), of a signed run of digits.
parseInt(sq) ==
    IF sq[1] = "-" THEN 0 - ParseDigits(Tail(sq))
    ELSE IF sq[1] = "+" THEN ParseDigits(Tail(sq))
    ELSE ParseDigits(sq)

\* parseFloat: the digits, and after a "." the digits of the fraction, which
\* is cut to the grid of the fixed-point numbers; what follows is dropped.
parseFloat(sq) ==
    LET n == LeadingDigits(sq)
        rest == SubSeq(sq, n + 1, Len(sq))
        f == IF rest # <<>> /\ rest[1] = "." THEN LeadingDigits(Tail(rest)) ELSE 0
    IN  IF n = 0
        THEN NaN
        ELSE Fin(ParseDigits(SubSeq(sq, 1, n)) * Scale
                    + ((ParseDigits(SubSeq(rest, 2, f + 1)) * Scale) \div Pow10(f)))

\* text.replace(",", "."): the first comma.
RECURSIVE ReplaceComma(_)
ReplaceComma(sq) ==
    IF sq = <<>> THEN <<>>
    ELSE IF sq[1] = "," THEN <<".">> \o Tail(sq)
    ELSE <<sq[1]>> \o ReplaceComma(Tail(sq))

\* The fields the groups of a match spell.
Captured(match) ==
    LET year == parseInt(match.g1)
        month == parseInt(match.g2)
        day == parseInt(match.g3)
        hours == parseInt(match.g4)
        minutes == IF match.g5 = <<>> THEN Int2Num(0) ELSE Int2Num(parseInt(match.g5))
        seconds == IF match.g6 = <<>> THEN Int2Num(0) ELSE parseFloat(ReplaceComma(match.g6))
    IN  Opts("absent", Int2Num(year), Int2Num(month), Int2Num(day), Int2Num(hours),
             minutes, seconds, "none")

\* The captured fields validated, not normalized.
parseIso8601Strict(text) ==
    LET matches == Exec(text)
    IN  IF matches = {}
        THEN ReturnNull
        ELSE LET captured == Captured(CHOOSE m \in matches : TRUE)
             IN  IF isValid(captured) THEN dateTime(captured) ELSE ReturnNull

parseIso8601(text) ==
    LET matches == Exec(text)
    IN  IF matches = {} THEN ReturnNull ELSE dateTime(Captured(CHOOSE m \in matches : TRUE))

(***************************************************************************)
(* The inputs                                                              *)
(***************************************************************************)
\* Days each side of the reference date that are all taken.
MaxDay == 400

\* Further days are taken DayStride apart, MaxStride of them each side.
DayStride == 487

MaxStride == 300

\* Months, days and hours run this far past each end of their range.
MonthSlack == 2

DaySlack == 2

HourSlack == 2

RefDays ==
    (0 - MaxDay .. MaxDay)
        \cup {k * DayStride : k \in 0 - MaxStride .. MaxStride}
        \cup (DaysBeforeYear(2024) - 2 .. DaysBeforeYear(2025) + 2)

RefTicks ==
    {0, 1, Scale, 60 * Scale - 1, 60 * Scale, 3600 * Scale - 1, 3600 * Scale,
     12 * 3600 * Scale + 1, DayTicks - Scale, DayTicks - 1}

RefSeconds == {WFin(d, t) : d \in RefDays, t \in RefTicks}

NonFiniteRefSeconds == {WNaN, WPosInf, WNegInf}

Years == {-401, -400, -1, 0, 1, 4, 100, 1900, 2000, 2023, 2024, 2025}

Months == (1 - MonthSlack) .. (12 + MonthSlack)

Days == (1 - DaySlack) .. (31 + DaySlack)

Hours == ((0 - HourSlack) .. HourSlack) \cup ((23 - HourSlack) .. (23 + HourSlack)) \cup {-25, -24, 48}

Minutes == {Undef, Int2Num(-61), Int2Num(-1), Int2Num(0), Int2Num(1), Int2Num(59), Int2Num(60), Int2Num(121)}

Seconds ==
    {Undef, Fin(-1), Fin(0), Fin(1), Fin(60 * Scale - 1), Int2Num(60), Fin(60 * Scale + 1),
     Int2Num(-60), Int2Num(3600), Int2Num(86400)}

Types == {"absent", "DateTime", "Other"}

\* Every date, at midnight with minutes and seconds left out and at the last
\* tick of the day.
DateVaried ==
    {Opts("absent", Int2Num(y), Int2Num(m), Int2Num(d), Int2Num(0), Undef, Undef, "none") :
        y \in Years, m \in Months, d \in Days}
    \cup
    {Opts("DateTime", Int2Num(y), Int2Num(m), Int2Num(d), Int2Num(23), Int2Num(59),
          Fin(60 * Scale - 1), "none") : y \in Years, m \in Months, d \in Days}

BaseDates == {<<1, 1, 1>>, <<0, 12, 31>>, <<2024, 2, 29>>, <<2024, 12, 31>>, <<2023, 2, 28>>}

\* Every time of day, on a few dates.
TimeVaried ==
    {Opts("DateTime", Int2Num(ymd[1]), Int2Num(ymd[2]), Int2Num(ymd[3]), Int2Num(h), mi, se, "none") :
        ymd \in BaseDates, h \in Hours, mi \in Minutes, se \in Seconds}

Base == Opts("DateTime", Int2Num(2024), Int2Num(2), Int2Num(29), Int2Num(11), Int2Num(57), Fin(23 * Scale + 1), "none")

NonFinite == {NaN, PosInf, NegInf}

\* One field of a valid date-time made NaN or infinite.
NonFiniteField ==
    UNION {{[Base EXCEPT !.year = x], [Base EXCEPT !.month = x], [Base EXCEPT !.day = x],
            [Base EXCEPT !.hours = x], [Base EXCEPT !.minutes = x], [Base EXCEPT !.seconds = x]} :
           x \in NonFinite}
    \cup {[Base EXCEPT !.hours = PosInf, !.minutes = NegInf],
          [Base EXCEPT !.hours = PosInf, !.seconds = PosInf]}

\* One field of a valid date-time made a non-integer, and the type tags.
Fraction == {Fin(1), Fin(Scale + 1), Fin(0 - 1)}

FractionField ==
    UNION {{[Base EXCEPT !.year = x], [Base EXCEPT !.month = x], [Base EXCEPT !.day = x],
            [Base EXCEPT !.hours = x], [Base EXCEPT !.minutes = x]} : x \in Fraction}

\* The time-of-day fields of a date-time made non-integers.
FractionTime ==
    {[Base EXCEPT !.hours = x, !.minutes = y] : x \in Fraction \cup {Int2Num(11)}, y \in Fraction \cup {Undef}}

Typed == {[o EXCEPT !.type = ty] : o \in {Base, [Base EXCEPT !.day = Int2Num(30)]}, ty \in Types}

\* What isValid and validate are called with.
AnyOpts == DateVaried \cup TimeVaried \cup NonFiniteField \cup FractionField \cup Typed

\* What the conversions are called with: the calendar fields are integers
\* or not finite.
ConvertibleOpts == DateVaried \cup TimeVaried \cup NonFiniteField \cup FractionTime \cup Typed

P(type, y, m, d, h, mi, se, extra) ==
    Opts(type, Int2Num(y), Int2Num(m), Int2Num(d), Int2Num(h), mi, se, extra)

\* What the comparisons are called with: several spellings of the same
\* instants, on objects with and without a type tag and further properties.
PairOpts ==
    {P("absent", 2024, 13, 1, 0, Undef, Undef, "x"),
     P("DateTime", 2025, 1, 1, 0, Int2Num(0), Int2Num(0), "none"),
     P("DateTime", 2025, 1, 1, 0, Int2Num(0), Int2Num(0), "x"),
     P("absent", 2024, 12, 31, 24, Int2Num(0), Undef, "none"),
     P("absent", 2024, 12, 31, 23, Int2Num(59), Int2Num(60), "y"),
     P("DateTime", 2024, 12, 31, 23, Int2Num(59), Fin(60 * Scale - 1), "none"),
     P("absent", 2025, 1, 1, 0, Int2Num(0), Fin(0 - 1), "x"),
     P("DateTime", 2025, 1, 1, 0, Int2Num(0), Fin(1), "none"),
     P("DateTime", 1, 1, 1, 0, Int2Num(0), Int2Num(0), "none"),
     P("absent", 1, 1, 0, 24, Undef, Undef, "none"),
     P("absent", 0, 13, 1, 0, Undef, Undef, "x"),
     P("DateTime", 0, 12, 31, 23, Int2Num(59), Int2Num(59), "none"),
     P("absent", 1, 1, 1, 0, Int2Num(0), Int2Num(-1), "y"),
     P("absent", 1, 1, 1, 0, Int2Num(-1), Fin(60 * Scale - 1), "none"),
     P("DateTime", -1, 12, 31, 0, Int2Num(0), Int2Num(0), "none"),
     P("DateTime", 2024, 2, 29, 12, Int2Num(0), Int2Num(0), "none"),
     P("absent", 2024, 3, 0, 12, Undef, Undef, "x"),
     P("absent", 2024, 2, 30, 0, Undef, Undef, "none"),
     P("DateTime", 2024, 3, 1, 0, Int2Num(0), Int2Num(0), "y"),
     P("absent", 2023, 2, 29, 0, Undef, Undef, "none"),
     [Base EXCEPT !.seconds = NaN],
     [Base EXCEPT !.hours = PosInf],
     [Base EXCEPT !.minutes = NegInf],
     [Base EXCEPT !.hours = PosInf, !.minutes = NegInf]}

\* The clock is read on this many days from 1 January 2024 on.
ClockDays == 60

\* The readings of the clock: midnight, 11:57:23 and the last second of a
\* day, in timezones behind, at and ahead of UTC.
Clocks ==
    {JsDate(DaysBeforeYear(2024) + k, sec, ms, off) :
        k \in 0 .. ClockDays, sec \in {0, 43043, 86399}, ms \in {0, 500, 723, 999},
        off \in {-36000, 0, 19800}}

NoClock == JsDate(0, 0, 0, 0)

\* The texts parseIso8601 is called with, made of their parts.
SignTexts == {<<>>, <<"+">>, <<"-">>}

YearTexts == {<<"2", "0", "2", "4">>, <<"0", "0", "0", "1">>, <<"1", "2", "0", "2", "4">>, <<"0", "2", "4">>}

MonthTexts == {<<"0", "1">>, <<"0", "2">>, <<"1", "2">>, <<"0", "0">>, <<"1", "3">>}

DayTexts == {<<"0", "1">>, <<"2", "8">>, <<"2", "9">>, <<"3", "0">>, <<"3", "1">>, <<"3", "2">>}

\* Every date, extended and basic, before two times of day.
DateTexts ==
    {sg \o y \o h \o m \o h \o d \o <<"T">> \o tm :
        sg \in SignTexts, y \in YearTexts, h \in {<<>>, <<"-">>}, m \in MonthTexts, d \in DayTexts,
        tm \in {<<"0", "0">>, <<"1", "1", ":", "5", "7", ":", "2", "3", ".", "5">>,
                <<"1", "1", "5", "7", "2", "3", ".", "5">>}}

DelimiterTexts == {<<"T">>, <<"t">>, <<" ">>, <<" ", "\t">>, <<>>, <<"x">>}

HourTexts == {<<"0", "0">>, <<"2", "3">>, <<"2", "4">>, <<"9", "9">>}

\* What follows the hours: nothing, minutes, minutes and seconds, with and
\* without colons, and fractions after "." and after ",".
TailTexts ==
    {<<>>, <<":", "5", "7">>, <<"5", "7">>, <<":", "5", "7", ":", "2", "3">>, <<"5", "7", "2", "3">>, <<":", "6", "0", ":", "6", "0">>, <<":", "5", "7", ":", "2", "3", ".", "5">>, <<":", "5", "7", ":", "2", "3", ",", "5">>, <<"5", "7", "2", "3", ".", "5">>, <<"5", "7", "2", "3", ",", "5">>, <<":", "5", "7", ":", "2", "3", ".">>, <<":", "5", "7", ":", "2", "3", ".", "2", "5">>, <<":", "5", "7", ":", "2", "3", ",", "2", "5">>, <<":", "5">>}

\* Timezone designators, and none.
DesignatorTexts == {<<>>, <<"Z">>, <<"z">>, <<"+", "0", "1", ":", "0", "0">>, <<"-", "0", "5", "0", "0">>}

\* Every time of day on one date, extended and basic.
TimeTexts ==
    {dt \o dl \o hh \o tl \o z :
        dt \in {<<"2", "0", "2", "4", "-", "0", "2", "-", "2", "9">>, <<"2", "0", "2", "4", "0", "2", "2", "9">>}, dl \in DelimiterTexts, hh \in HourTexts, tl \in TailTexts, z \in DesignatorTexts}

Texts ==
    DateTexts \cup TimeTexts \cup
    {<<"2", "0", "2", "4", "-", "0", "1", "-", "2", "6", "T", "1", "1", ":", "5", "7", ":", "2", "3", ".", "5">>,
     <<"2", "0", "2", "4", "-", "0", "1", "-", "2", "6", "T", "1", "1", ":", "5", "7", ":", "2", "3", ",", "5">>,
     <<"2", "0", "2", "4", "-", "0", "1", "-", "2", "6", "T", "1", "1", ":", "5", "7", ":", "2", "3", "Z">>, <<"2", "0", "2", "4", "-", "0", "1", "-", "3", "2", "T", "0", "0", ":", "0", "0", ":", "0", "0">>}

(***************************************************************************)
(* The curried variants.  A variant returns the function  a => f(a, b),    *)
(* here the function of the left-hand operands the model calls it with.    *)
(***************************************************************************)
equalFn(b) == [a \in PairOpts |-> equal(a, b)]

notEqualFn(b) == [a \in PairOpts |-> notEqual(a, b)]

compareFn(b) == [a \in PairOpts |-> compare(a, b)]

\* The operands in the other order.
beforeFnSwapped(b) == [a \in PairOpts |-> before(b, a)]

beforeFn(b) == [a \in PairOpts |-> before(a, b)]

beforeOrEqualFn(b) == [a \in PairOpts |-> beforeOrEqual(a, b)]

afterFn(b) == [a \in PairOpts |-> after(a, b)]

afterOrEqualFn(b) == [a \in PairOpts |-> afterOrEqual(a, b)]

earliestFn(b) == [a \in PairOpts |-> earliest(a, b)]

latestFn(b) == [a \in PairOpts |-> latest(a, b)]

\* The result of the function a variant returned, called with x.
CallCurried(name, y, x) ==
    CASE name = "equalFn" -> ReturnBool(equalFn(y)[x])
      [] name = "notEqualFn" -> ReturnBool(notEqualFn(y)[x])
      [] name = "compareFn" -> ReturnComparison(compareFn(y)[x])
      [] name = "beforeFn" -> ReturnBool(beforeFn(y)[x])
      [] name = "beforeOrEqualFn" -> ReturnBool(beforeOrEqualFn(y)[x])
      [] name = "afterFn" -> ReturnBool(afterFn(y)[x])
      [] name = "afterOrEqualFn" -> ReturnBool(afterOrEqualFn(y)[x])
      [] name = "earliestFn" -> earliestFn(y)[x]
      [] name = "latestFn" -> latestFn(y)[x]

(***************************************************************************)
(* The calls                                                               *)
(***************************************************************************)
VARIABLES pc, op, a, b, s, now, text, out

vars == <<pc, op, a, b, s, now, text, out>>

Init ==
    /\ pc = "idle"
    /\ op = "none"
    /\ a = NoOpts
    /\ b = NoOpts
    /\ s = WNaN
    /\ now = NoClock
    /\ text = <<>>
    /\ out = NoOut

Call1(name, x, result) ==
    /\ pc' = "done"
    /\ op' = name
    /\ a' = x
    /\ out' = result
    /\ UNCHANGED <<b, s, now, text>>

IsValid ==
    /\ pc = "idle"
    /\ \E x \in AnyOpts : Call1("isValid", x, ReturnBool(isValid(x)))

Validate ==
    /\ pc = "idle"
    /\ \E x \in AnyOpts : Call1("validate", x, validate(x))

DateTime ==
    /\ pc = "idle"
    /\ \E x \in ConvertibleOpts : Call1("dateTime", x, dateTime(x))

ToReferenceSeconds ==
    /\ pc = "idle"
    /\ \E x \in ConvertibleOpts : Call1("toReferenceSeconds", x, ReturnNumber(toReferenceSeconds(x)))

FromReferenceSeconds ==
    /\ pc = "idle"
    /\ \E x \in RefSeconds \cup NonFiniteRefSeconds :
        /\ pc' = "done"
        /\ op' = "fromReferenceSeconds"
        /\ s' = x
        /\ out' = fromReferenceSeconds(x)
        /\ UNCHANGED <<a, b, now, text>>

Call2(name, x, y, result) ==
    /\ pc' = "done"
    /\ op' = name
    /\ a' = x
    /\ b' = y
    /\ out' = result
    /\ UNCHANGED <<s, now, text>>

Equal ==
    /\ pc = "idle"
    /\ \E x \in PairOpts, y \in PairOpts : Call2("equal", x, y, ReturnBool(equal(x, y)))

NotEqual ==
    /\ pc = "idle"
    /\ \E x \in PairOpts, y \in PairOpts : Call2("notEqual", x, y, ReturnBool(notEqual(x, y)))

Compare ==
    /\ pc = "idle"
    /\ \E x \in PairOpts, y \in PairOpts : Call2("compare", x, y, ReturnComparison(compare(x, y)))

Before ==
    /\ pc = "idle"
    /\ \E x \in PairOpts, y \in PairOpts : Call2("before", x, y, ReturnBool(before(x, y)))

BeforeOrEqual ==
    /\ pc = "idle"
    /\ \E x \in PairOpts, y \in PairOpts :
        Call2("beforeOrEqual", x, y, ReturnBool(beforeOrEqual(x, y)))

After ==
    /\ pc = "idle"
    /\ \E x \in PairOpts, y \in PairOpts : Call2("after", x, y, ReturnBool(after(x, y)))

AfterOrEqual ==
    /\ pc = "idle"
    /\ \E x \in PairOpts, y \in PairOpts :
        Call2("afterOrEqual", x, y, ReturnBool(afterOrEqual(x, y)))

Earliest ==
    /\ pc = "idle"
    /\ \E x \in PairOpts, y \in PairOpts : Call2("earliest", x, y, earliest(x, y))

Latest ==
    /\ pc = "idle"
    /\ \E x \in PairOpts, y \in PairOpts : Call2("latest", x, y, latest(x, y))

NowUtc ==
    /\ pc = "idle"
    /\ \E x \in Clocks :
        /\ pc' = "done"
        /\ op' = "nowUtc"
        /\ now' = x
        /\ out' = nowUtc(x)
        /\ UNCHANGED <<a, b, s, text>>

NowDeviceLocal ==
    /\ pc = "idle"
    /\ \E x \in Clocks :
        /\ pc' = "done"
        /\ op' = "nowDeviceLocal"
        /\ now' = x
        /\ out' = nowDeviceLocal(x)
        /\ UNCHANGED <<a, b, s, text>>

ParseIso8601 ==
    /\ pc = "idle"
    /\ \E x \in Texts :
        /\ pc' = "done"
        /\ op' = "parseIso8601"
        /\ text' = x
        /\ out' = parseIso8601(x)
        /\ UNCHANGED <<a, b, s, now>>

\* A curried variant called with y: the function it returns holds y.
Curry(name, y) ==
    /\ pc' = "curried"
    /\ op' = name
    /\ b' = y
    /\ UNCHANGED <<a, s, now, text, out>>

EqualFn ==
    /\ pc = "idle"
    /\ \E y \in PairOpts : Curry("equalFn", y)

NotEqualFn ==
    /\ pc = "idle"
    /\ \E y \in PairOpts : Curry("notEqualFn", y)

CompareFn ==
    /\ pc = "idle"
    /\ \E y \in PairOpts : Curry("compareFn", y)

BeforeFn ==
    /\ pc = "idle"
    /\ \E y \in PairOpts : Curry("beforeFn", y)

BeforeOrEqualFn ==
    /\ pc = "idle"
    /\ \E y \in PairOpts : Curry("beforeOrEqualFn", y)

AfterFn ==
    /\ pc = "idle"
    /\ \E y \in PairOpts : Curry("afterFn", y)

AfterOrEqualFn ==
    /\ pc = "idle"
    /\ \E y \in PairOpts : Curry("afterOrEqualFn", y)

EarliestFn ==
    /\ pc = "idle"
    /\ \E y \in PairOpts : Curry("earliestFn", y)

LatestFn ==
    /\ pc = "idle"
    /\ \E y \in PairOpts : Curry("latestFn", y)

\* The function a curried variant returned, called with x.
CallReturnedFunction ==
    /\ pc = "curried"
    /\ \E x \in PairOpts :
        /\ pc' = "done"
        /\ a' = x
        /\ out' = CallCurried(op, b, x)
        /\ UNCHANGED <<op, b, s, now, text>>

Next ==
    \/ IsValid
    \/ Validate
    \/ DateTime
    \/ ToReferenceSeconds
    \/ FromReferenceSeconds
    \/ Equal
    \/ NotEqual
    \/ Compare
    \/ Before
    \/ BeforeOrEqual
    \/ After
    \/ AfterOrEqual
    \/ Earliest
    \/ Latest
    \/ NowUtc
    \/ NowDeviceLocal
    \/ ParseIso8601
    \/ EqualFn
    \/ NotEqualFn
    \/ CompareFn
    \/ BeforeFn
    \/ BeforeOrEqualFn
    \/ AfterFn
    \/ AfterOrEqualFn
    \/ EarliestFn
    \/ LatestFn
    \/ CallReturnedFunction

Spec == Init /\ [][Next]_vars

(***************************************************************************)
(* Properties                                                              *)
(***************************************************************************)
Returned(name) == pc = "done" /\ op = name /\ ~out.threw

Threw(name) == pc = "done" /\ op = name /\ out.threw

IsWhole(x) == x.k = "fin" /\ x.v % Scale = 0

WholeBetween(x, lo, hi) == IsWhole(x) /\ lo * Scale <= x.v /\ x.v <= hi * Scale

LengthOfMonth(m, y) ==
    IF m = 2
    THEN (IF y % 400 = 0 \/ (y % 4 = 0 /\ y % 100 # 0) THEN 29 ELSE 28)
    ELSE IF m \in {4, 6, 9, 11} THEN 30 ELSE 31

\* Validity as the documentation words it, on the fields themselves.
ValidAsDescribed(o) ==
    /\ o.type \in {"absent", "DateTime"}
    /\ IsWhole(o.year)
    /\ WholeBetween(o.month, 1, 12)
    /\ IsWhole(o.day)
    /\ o.day.v >= Scale
    /\ o.day.v <= Scale * LengthOfMonth(o.month.v \div Scale, o.year.v \div Scale)
    /\ WholeBetween(o.hours, 0, 23)
    /\ (o.minutes.k = "undef" \/ WholeBetween(o.minutes, 0, 59))
    /\ (o.seconds.k = "undef" \/ (o.seconds.k = "fin" /\ 0 <= o.seconds.v /\ o.seconds.v < 60 * Scale))

FieldsFinite(o) ==
    /\ o.year.k = "fin"
    /\ o.month.k = "fin"
    /\ o.day.k = "fin"
    /\ o.hours.k = "fin"
    /\ o.minutes.k \in {"fin", "undef"}
    /\ o.seconds.k \in {"fin", "undef"}

\* Year, month, day, hours, minutes and seconds agree, an omitted minutes
\* or seconds counting as 0.
SameFields(x, y) ==
    /\ x.year = y.year
    /\ x.month = y.month
    /\ x.day = y.day
    /\ x.hours = y.hours
    /\ Default0(x.minutes) = Default0(y.minutes)
    /\ Default0(x.seconds) = Default0(y.seconds)

\* C1: for every finite s, negative ones and exact multiples of 86400
\* included, fromReferenceSeconds(s) returns a DateTime that is valid: the
\* fields are integers in their ranges, the day within its month, and
\* seconds in [0, 60).
C1_FromReferenceSecondsValid ==
    (pc = "done" /\ op = "fromReferenceSeconds" /\ s.k = "fin")
        => /\ ~out.threw
           /\ out.dt.type = "DateTime"
           /\ out.dt.minutes.k = "fin"
           /\ out.dt.seconds.k = "fin"
           /\ ValidAsDescribed(out.dt)
           /\ isValid(out.dt)

C1_Witness ==
    /\ Returned("fromReferenceSeconds")
    /\ s.k = "fin"
    /\ s.d < 0
    /\ s.t = 0
    /\ out.dt.month = Int2Num(2)
    /\ out.dt.day = Int2Num(29)

\* C2: for every finite s, of either sign, toReferenceSeconds of
\* fromReferenceSeconds(s) is s again.
C2_RoundTrip ==
    (pc = "done" /\ op = "fromReferenceSeconds" /\ s.k = "fin")
        => /\ ~out.threw
           /\ toReferenceSeconds(out.dt) = s

C2_Witness ==
    /\ Returned("fromReferenceSeconds")
    /\ s.k = "fin"
    /\ s.d < 0
    /\ s.t = 1
    /\ toReferenceSeconds(out.dt) = s

\* C3: normalize (dateTime) of a valid date-time has the same year, month,
\* day, hours, minutes and seconds as its argument.
C3_NormalizeValidIsIdentity ==
    (pc = "done" /\ op = "dateTime" /\ ValidAsDescribed(a))
        => /\ ~out.threw
           /\ SameFields(out.dt, a)

C3_Witness ==
    /\ Returned("dateTime")
    /\ ValidAsDescribed(a)
    /\ a.type = "DateTime"
    /\ a.month = Int2Num(2)
    /\ a.day = Int2Num(29)
    /\ a.seconds = Fin(60 * Scale - 1)
    /\ SameFields(out.dt, a)

\* C4: normalize of options with finite fields (out of range, negative, or
\* with minutes and seconds omitted) is valid and stands for the same
\* reference second as the options; normalize of 2024-13-01 00h is
\* field-wise normalize of 2025-01-01 00h.
C4_NormalizeCarries ==
    (pc = "done" /\ op = "dateTime" /\ FieldsFinite(a))
        => /\ ~out.threw
           /\ ValidAsDescribed(out.dt)
           /\ toReferenceSeconds(out.dt) = toReferenceSeconds(a)
           /\ (a = P("absent", 2024, 13, 1, 0, Undef, Undef, "none")
                 => /\ SameFields(out.dt, normalize(P("absent", 2025, 1, 1, 0, Undef, Undef, "none")).dt)
                    /\ SameFields(out.dt, P("DateTime", 2025, 1, 1, 0, Int2Num(0), Int2Num(0), "none")))

C4_Witness ==
    /\ Returned("dateTime")
    /\ a = P("absent", 2024, 13, 1, 0, Undef, Undef, "none")
    /\ out.dt = P("DateTime", 2025, 1, 1, 0, Int2Num(0), Int2Num(0), "none")

\* C5: fromReferenceSeconds(-1) is 31 December of year 0, 23:59:59; for a
\* negative finite s the date is that of day floor(s / 86400), the day D
\* with D * 86400 <= s < (D + 1) * 86400, and hours, minutes and seconds
\* are not negative.
C5_NegativeTime ==
    (pc = "done" /\ op = "fromReferenceSeconds" /\ s.k = "fin" /\ s.d < 0)
        => LET dd == DateToReferenceDaysInt(out.dt.year.v \div Scale, out.dt.month.v \div Scale,
                                            out.dt.day.v \div Scale)
           IN  /\ ~out.threw
               /\ ~WLt(s, WOfDaysAndTicks(dd, 0))
               /\ WLt(s, WOfDaysAndTicks(dd + 1, 0))
               /\ out.dt.hours.v >= 0
               /\ out.dt.minutes.v >= 0
               /\ out.dt.seconds.v >= 0
               /\ (s = WOfDaysAndTicks(0, 0 - Scale)
                     => out.dt = P("DateTime", 0, 12, 31, 23, Int2Num(59), Int2Num(59), "none"))

C5_Witness ==
    /\ Returned("fromReferenceSeconds")
    /\ s = WOfDaysAndTicks(0, 0 - Scale)
    /\ out.dt.year = Int2Num(0)
    /\ out.dt.seconds = Int2Num(59)

\* C6: fromReferenceSeconds throws, and returns no DateTime, when its
\* argument is NaN or an infinity; dateTime (normalize) throws when a
\* field, after defaulting, is NaN or infinite; on finite input neither
\* throws.
C6_NonFiniteRejected ==
    /\ (pc = "done" /\ op = "fromReferenceSeconds")
          => /\ (out.threw <=> s.k \in {"nan", "inf", "ninf"})
             /\ (out.threw => out.dt = NoOpts)
             /\ (~out.threw => out.dt.type = "DateTime")
    /\ (pc = "done" /\ op = "dateTime")
          => /\ (out.threw <=> ~FieldsFinite(a))
             /\ (out.threw => out.dt = NoOpts)
             /\ (~out.threw => out.dt.type = "DateTime")

C6_Witness ==
    /\ Threw("dateTime")
    /\ a.hours = PosInf
    /\ a.minutes = NegInf

\* The order of two reference-second values, read off their digits.
Earlier(x, y) ==
    LET rx == toReferenceSeconds(x)
        ry == toReferenceSeconds(y)
    IN  rx.k = "fin" /\ ry.k = "fin" /\ (rx.d < ry.d \/ (rx.d = ry.d /\ rx.t < ry.t))

Same(x, y) ==
    LET rx == toReferenceSeconds(x)
        ry == toReferenceSeconds(y)
    IN  rx.k = "fin" /\ ry.k = "fin" /\ rx.d = ry.d /\ rx.t = ry.t

ExactlyOne(p, q, r) == (p /\ ~q /\ ~r) \/ (~p /\ q /\ ~r) \/ (~p /\ ~q /\ r)

FinitePairOpts == {x \in PairOpts : FieldsFinite(x)}

\* C7: for a and b with finite fields, valid or not, exactly one of
\* before, equal and after holds; compare returns the matching one of
\* before, equal, after; compare(a, b) is before iff compare(b, a) is
\* after; and compare is transitive.
C7_ComparatorTotal ==
    (pc = "done" /\ op = "compare" /\ FieldsFinite(a) /\ FieldsFinite(b))
        => /\ ~out.threw
           /\ ExactlyOne(before(a, b), equal(a, b), after(a, b))
           /\ out.cmp \in {"before", "equal", "after"}
           /\ (out.cmp = "before" <=> before(a, b))
           /\ (out.cmp = "equal" <=> equal(a, b))
           /\ (out.cmp = "after" <=> after(a, b))
           /\ (out.cmp = "before" <=> Earlier(a, b))
           /\ (out.cmp = "after" <=> Earlier(b, a))
           /\ (out.cmp = "before" <=> compare(b, a) = "after")
           /\ (out.cmp = "equal" <=> compare(b, a) = "equal")
           /\ \A c \in FinitePairOpts :
                /\ (out.cmp = "before" /\ compare(b, c) \in {"before", "equal"})
                      => compare(a, c) = "before"
                /\ (out.cmp = "equal" /\ compare(b, c) = "before") => compare(a, c) = "before"
                /\ (out.cmp = "equal" /\ compare(b, c) = "equal") => compare(a, c) = "equal"
                /\ (out.cmp = "after" /\ compare(b, c) \in {"after", "equal"})
                      => compare(a, c) = "after"
                /\ (out.cmp = "equal" /\ compare(b, c) = "after") => compare(a, c) = "after"

C7_Witness ==
    /\ Returned("compare")
    /\ a = P("absent", 2024, 12, 31, 23, Int2Num(59), Int2Num(60), "y")
    /\ b = P("absent", 2025, 1, 1, 0, Int2Num(0), Fin(0 - 1), "x")
    /\ out.cmp = "after"
    /\ after(a, b)
    /\ compare(b, a) = "before"

\* C8: earliest(a, b) and latest(a, b) return one of the two argument
\* objects as it is, out-of-range fields and further properties kept:
\* earliest the one with the smaller reference-second value, latest the one
\* with the larger, and a when the two values are the same.
C8_EarliestLatestReturnArgument ==
    /\ (pc = "done" /\ op = "earliest" /\ FieldsFinite(a) /\ FieldsFinite(b))
          => /\ ~out.threw
             /\ (Earlier(b, a) => (out.pick = "b" /\ out.dt = b))
             /\ (Earlier(a, b) => (out.pick = "a" /\ out.dt = a))
             /\ (Same(a, b) => (out.pick = "a" /\ out.dt = a))
    /\ (pc = "done" /\ op = "latest" /\ FieldsFinite(a) /\ FieldsFinite(b))
          => /\ ~out.threw
             /\ (Earlier(a, b) => (out.pick = "b" /\ out.dt = b))
             /\ (Earlier(b, a) => (out.pick = "a" /\ out.dt = a))
             /\ (Same(a, b) => (out.pick = "a" /\ out.dt = a))

C8_Witness ==
    /\ Returned("earliest")
    /\ a = P("absent", 2024, 13, 1, 0, Undef, Undef, "x")
    /\ b = P("DateTime", 2025, 1, 1, 0, Int2Num(0), Int2Num(0), "none")
    /\ out.pick = "a"
    /\ out.dt.month = Int2Num(13)
    /\ out.dt.extra = "x"

\* C9: isValid(o) is true exactly when the type tag, if there is one, is
\* "DateTime", year is an integer, month an integer in 1..12, day an integer
\* in 1..daysInMonth(month, year), hours an integer in 0..23, minutes (0
\* when absent) an integer in 0..59 and seconds (0 when absent) in [0, 60);
\* isValid does not throw.
C9_IsValidIffInRange ==
    (pc = "done" /\ op = "isValid")
        => /\ ~out.threw
           /\ (out.bool <=> ValidAsDescribed(a))

C9_Witness ==
    /\ Returned("isValid")
    /\ a.month = Int2Num(2)
    /\ a.day = Int2Num(29)
    /\ a.year = Int2Num(2000)
    /\ out.bool

\* C10: validate(o) throws exactly when isValid(o) is false; when isValid(o)
\* is true it returns with no value and no effect.
C10_ValidateThrowsIffInvalid ==
    (pc = "done" /\ op = "validate")
        => /\ (out.threw <=> ~ValidAsDescribed(a))
           /\ (out.threw <=> ~isValid(a))
           /\ (~out.threw => out = NoOut)

C10_Witness ==
    /\ Threw("validate")
    /\ a.month = Int2Num(4)
    /\ a.day = Int2Num(31)
    /\ a.hours = Int2Num(0)

\* The date-time of the fields f of the clock: the month from 1, the day of
\* the month, and the milliseconds in the seconds.
ComposedFrom(f) ==
    Opts("DateTime", Int2Num(f.fullYear), Int2Num(f.month + 1), Int2Num(f.date), Int2Num(f.hours),
         Int2Num(f.minutes), Fin(f.seconds * Scale + ((f.milliseconds * Scale) \div 1000)), "none")

\* C11: for every reading of the clock, nowDeviceLocal returns a valid
\* DateTime made of the local fields as nowUtc makes it of the UTC fields:
\* the local full year, the local month counted from 1, the local day of the
\* month, the local hours, the local minutes, and seconds plus
\* milliseconds / 1000.
C11_NowDeviceLocalIsLocalNow ==
    (pc = "done" /\ op = "nowDeviceLocal")
        => /\ ~out.threw
           /\ ValidAsDescribed(out.dt)
           /\ out.dt = ComposedFrom(now.local)

\* nowUtc is what C11 compares with: it is valid and made of the UTC fields.
NowUtcIsUtcNow ==
    (pc = "done" /\ op = "nowUtc")
        => /\ ~out.threw
           /\ ValidAsDescribed(out.dt)
           /\ out.dt = ComposedFrom(now.utc)

(***************************************************************************)
(* Properties of parseIso8601.  The texts are spelt out here with the      *)
(* fields they write, apart from the pattern.                              *)
(***************************************************************************)
SignsWritten == {<<<<>>, 1>>,
     <<<<"+">>, 1>>,
     <<<<"-">>, -1>>}

YearsWritten == {<<<<"2", "0", "2", "4">>, 2024>>,
     <<<<"0", "0", "0", "1">>, 1>>,
     <<<<"1", "2", "0", "2", "4">>, 12024>>}

MonthsWritten == {<<<<"0", "1">>, 1>>,
     <<<<"0", "2">>, 2>>,
     <<<<"1", "2">>, 12>>,
     <<<<"0", "0">>, 0>>,
     <<<<"1", "3">>, 13>>}

DaysWritten == {<<<<"0", "1">>, 1>>,
     <<<<"2", "8">>, 28>>,
     <<<<"2", "9">>, 29>>,
     <<<<"3", "0">>, 30>>,
     <<<<"3", "1">>, 31>>,
     <<<<"3", "2">>, 32>>}

HoursWritten == {<<<<"0", "0">>, 0>>,
     <<<<"2", "3">>, 23>>,
     <<<<"2", "4">>, 24>>,
     <<<<"9", "9">>, 99>>}

DelimitersWritten == {<<"T">>, <<"t">>, <<" ">>, <<" ", "\t">>}

\* What follows the hours in the extended form and in the basic form, with
\* the minutes and the seconds written.
ExtendedTailsWritten ==
    {<<<<>>, 0, Int2Num(0)>>,
     <<<<":", "5", "7">>, 57, Int2Num(0)>>,
     <<<<":", "5", "7", ":", "2", "3">>, 57, Int2Num(23)>>,
     <<<<":", "6", "0", ":", "6", "0">>, 60, Int2Num(60)>>,
     <<<<":", "5", "7", ":", "2", "3", ".", "5">>, 57, Fin(23 * Scale + ((5 * Scale) \div 10))>>,
     <<<<":", "5", "7", ":", "2", "3", ".">>, 57, Int2Num(23)>>,
     <<<<":", "5", "7", ":", "2", "3", ".", "2", "5">>, 57, Fin(23 * Scale + ((25 * Scale) \div 100))>>}

BasicTailsWritten ==
    {<<<<>>, 0, Int2Num(0)>>,
     <<<<"5", "7">>, 57, Int2Num(0)>>,
     <<<<"5", "7", "2", "3">>, 57, Int2Num(23)>>,
     <<<<"5", "7", "2", "3", ".", "5">>, 57, Fin(23 * Scale + ((5 * Scale) \div 10))>>}

WrittenText(t, year, month, day, hours, minutes, seconds) ==
    [text |-> t,
     dt |-> Opts("absent", Int2Num(year), Int2Num(month), Int2Num(day), Int2Num(hours),
                 Int2Num(minutes), seconds, "none")]

\* The texts in the extended form YYYY-MM-DDTHH:MM:SS.sss and in the basic
\* form YYYYMMDDTHHMMSS.sss that are among the inputs, in range or not.
TextsWritten ==
    {WrittenText(sg[1] \o y[1] \o <<"-">> \o m[1] \o <<"-">> \o d[1] \o <<"T">> \o tm[1],
                 sg[2] * y[2], m[2], d[2], tm[2], tm[3], tm[4]) :
        sg \in SignsWritten, y \in YearsWritten, m \in MonthsWritten, d \in DaysWritten,
        tm \in {<<<<"0", "0">>, 0, 0, Int2Num(0)>>, <<<<"1", "1", ":", "5", "7", ":", "2", "3", ".", "5">>, 11, 57, Fin(23 * Scale + ((5 * Scale) \div 10))>>}}
    \cup
    {WrittenText(sg[1] \o y[1] \o m[1] \o d[1] \o <<"T">> \o tm[1],
                 sg[2] * y[2], m[2], d[2], tm[2], tm[3], tm[4]) :
        sg \in SignsWritten, y \in YearsWritten, m \in MonthsWritten, d \in DaysWritten,
        tm \in {<<<<"0", "0">>, 0, 0, Int2Num(0)>>, <<<<"1", "1", "5", "7", "2", "3", ".", "5">>, 11, 57, Fin(23 * Scale + ((5 * Scale) \div 10))>>}}
    \cup
    {WrittenText(<<"2", "0", "2", "4", "-", "0", "2", "-", "2", "9">> \o dl \o hh[1] \o tl[1], 2024, 2, 29, hh[2], tl[2], tl[3]) :
        dl \in DelimitersWritten, hh \in HoursWritten, tl \in ExtendedTailsWritten}
    \cup
    {WrittenText(<<"2", "0", "2", "4", "0", "2", "2", "9">> \o dl \o hh[1] \o tl[1], 2024, 2, 29, hh[2], tl[2], tl[3]) :
        dl \in DelimitersWritten, hh \in HoursWritten, tl \in BasicTailsWritten}
    \cup
    {WrittenText(<<"2", "0", "2", "4", "-", "0", "1", "-", "3", "2", "T", "0", "0", ":", "0", "0", ":", "0", "0">>, 2024, 1, 32, 0, 0, Int2Num(0)),
     WrittenText(<<"2", "0", "2", "4", "-", "0", "1", "-", "2", "6", "T", "1", "1", ":", "5", "7", ":", "2", "3", ".", "5">>, 2024, 1, 26, 11, 57, Fin(23 * Scale + ((5 * Scale) \div 10)))}

HasComma(t) == \E i \in DOMAIN t : t[i] = ","

EndsWith(t, z) == Len(t) >= Len(z) /\ SubSeq(t, Len(t) - Len(z) + 1, Len(t)) = z

\* C12: the separator of the fraction may be "." or ",": a text with a ","
\* whose spelling with "." is well formed gives the same DateTime, not null,
\* as that spelling.
C12_CommaAsDecimalSeparator ==
    (pc = "done" /\ op = "parseIso8601" /\ HasComma(text)
        /\ \E w \in TextsWritten : w.text = ReplaceComma(text))
        => /\ ~out.null
           /\ out = parseIso8601(ReplaceComma(text))

\* C13: parseIso8601 returns null, and does not throw, for a text that does
\* not match the pattern, and so for every text that ends in a timezone
\* designator (Z, or an offset such as +01:00).
C13_NoMatchIsNull ==
    (pc = "done" /\ op = "parseIso8601")
        => /\ ~out.threw
           /\ (\E z \in DesignatorTexts \ {<<>>} : EndsWith(text, z)) => out.null
           /\ (Exec(text) = {} => out.null)
           /\ (out.null => out = ReturnNull)

C13_Witness ==
    /\ Returned("parseIso8601")
    /\ text = <<"2", "0", "2", "4", "-", "0", "1", "-", "2", "6", "T", "1", "1", ":", "5", "7", ":", "2", "3", "Z">>
    /\ out.null

\* C14: a text in the extended or the basic form, the delimiter T in either
\* case or a run of whitespace, the year signed or not and of four digits or
\* more, seconds or minutes and seconds left out or not, and every field in
\* range, gives the DateTime of exactly the fields written, minutes and
\* seconds 0 where left out.
C14_WellFormedTextGivesWrittenFields ==
    (pc = "done" /\ op = "parseIso8601")
        => \A w \in TextsWritten :
              (w.text = text /\ ValidAsDescribed(w.dt))
                 => /\ ~out.null
                    /\ ~out.threw
                    /\ out.dt.type = "DateTime"
                    /\ SameFields(out.dt, w.dt)

C14_Witness ==
    /\ Returned("parseIso8601")
    /\ text = <<"2", "0", "2", "4", "0", "2", "2", "9", " ", "\t", "2", "3", "5", "7", "2", "3", ".", "5">>
    /\ ~out.null
    /\ out.dt = P("DateTime", 2024, 2, 29, 23, Int2Num(57), Fin(23 * Scale + ((5 * Scale) \div 10)), "none")

IsUnordered(o) ==
    LET fields == {o.hours, Default0(o.minutes), Default0(o.seconds)}
    IN  NaN \in fields \/ (PosInf \in fields /\ NegInf \in fields)

\* C16: every curried variant holds the right-hand operand and takes the
\* left-hand one: fFn(b)(a) = f(a, b) for equal, notEqual, compare, before,
\* beforeOrEqual, after, afterOrEqual, earliest and latest, the object
\* returned on a tie included.
C16_CurriedIsRightOperandFirst ==
    pc = "done"
        => /\ op = "equalFn" => out = ReturnBool(equal(a, b))
           /\ op = "notEqualFn" => out = ReturnBool(notEqual(a, b))
           /\ op = "compareFn" => out = ReturnComparison(compare(a, b))
           /\ op = "beforeFn" => out = ReturnBool(before(a, b))
           /\ op = "beforeOrEqualFn" => out = ReturnBool(beforeOrEqual(a, b))
           /\ op = "afterFn" => out = ReturnBool(after(a, b))
           /\ op = "afterOrEqualFn" => out = ReturnBool(afterOrEqual(a, b))
           /\ op = "earliestFn" => out = earliest(a, b)
           /\ op = "latestFn" => out = latest(a, b)
           /\ (op \in {"earliestFn", "latestFn"} /\ Same(a, b))
                 => out.pick = "a"

C16_Witness ==
    /\ pc = "done"
    /\ op = "beforeFn"
    /\ Earlier(a, b)
    /\ out = ReturnBool(TRUE)

\* C17 as claimed: compare never returns Comparison.undefined; with an
\* unordered operand it throws.
C17_CompareRejectsUnordered ==
    (pc = "done" /\ op = "compare")
        => /\ out.cmp # "undefined"
           /\ (IsUnordered(a) \/ IsUnordered(b)) => out.threw

\* C17 amended: compare throws nothing, and returns Comparison.undefined
\* exactly when an operand is unordered.
C17_CompareUndefinedIffUnordered ==
    (pc = "done" /\ op = "compare")
        => /\ ~out.threw
           /\ out.cmp = "undefined" <=> (IsUnordered(a) \/ IsUnordered(b))

C17_Witness ==
    /\ Returned("compare")
    /\ a = [Base EXCEPT !.hours = PosInf, !.minutes = NegInf]
    /\ ~IsUnordered(b)
    /\ out = ReturnComparison("undefined")

====
